---------------------------- MODULE Spec2Model ----------------------------
(***************************************************************************)
(* A model of the PNG chunk codec: ChunkType (src/src/chunk_type.rs) and   *)
(* Chunk (src/src/chunk.rs).  A u32 is held as two 16-bit halves, so that  *)
(* the conversions to and from big-endian bytes, the `as u32` casts and    *)
(* the addition `12 + len_tmp` keep their 32-bit width.                    *)
(***************************************************************************)
EXTENDS Integers, Sequences, FiniteSets, TLC

VARIABLES
    overflow_checks, \* the build: TRUE when integer overflow panics (debug profile)
    ctype,           \* the ChunkType the caller holds, or None
    chunk,           \* the Chunk the caller holds, or None
    buf,             \* the byte buffer the caller holds
    res,             \* outcome of the last call: Ok, an error message, or Panic
    last,            \* the last call
    arg,             \* the argument of the last ChunkType constructor call
    origin,          \* how `chunk` came to exist: "none", "new" or "decoded"
    source_buf,      \* the buffer `chunk` was decoded from
    encoded,         \* the Chunk `buf` was produced from by as_bytes, or None
    encoded_origin,  \* the origin of that Chunk
    tampered,        \* whether a payload byte of `buf` was altered since as_bytes
    flags            \* the values the accessors of `ctype` returned, or None

vars == <<overflow_checks, ctype, chunk, buf, res, last, arg, origin,
          source_buf, encoded, encoded_origin, tampered, flags>>

-----------------------------------------------------------------------------
(* Bounds of the model *)

MaxData == 2

MaxStrLen == 5

-----------------------------------------------------------------------------
(* Results *)

None == [none |-> TRUE]

Ok == "Ok"

Panic == "panic"

InvalidTypeCode == "Error: Invalid byte slice for ChunkType"

InvalidLength == "Error: Wrong Str length for ChunkType"

TooShort == "Chunk Try From Error: bytes not long enough"

LengthMismatch == "Chunk Try From Error: data length wrong"

CrcMismatch == "Chunk Try From Error: crc not match"

-----------------------------------------------------------------------------
(* u32 arithmetic on two 16-bit halves *)

Half == 256 * 256

U32(h, l) == [hi |-> h, lo |-> l]

\* `n as u32` for a usize n
AsU32(n) == U32((n \div Half) % Half, n % Half)

\* `u as usize`
AsUsize(u) == u.hi * Half + u.lo

\* a + b on u32: the wrapped sum, and whether it overflowed
AddU32(a, b) ==
    LET lo == a.lo + b.lo
        hi == a.hi + b.hi + (lo \div Half)
    IN  [value |-> U32(hi % Half, lo % Half), overflow |-> hi >= Half]

from_be_bytes(b) == U32(b[1] * 256 + b[2], b[3] * 256 + b[4])

to_be_bytes(u) == <<u.hi \div 256, u.hi % 256, u.lo \div 256, u.lo % 256>>

RECURSIVE XorBits(_, _, _)
XorBits(a, b, n) ==
    IF n = 0 THEN 0
    ELSE ((a + b) % 2) + 2 * XorBits(a \div 2, b \div 2, n - 1)

XorU32(a, b) == U32(XorBits(a.hi, b.hi, 16), XorBits(a.lo, b.lo, 16))

\* u >> 1
Shr1(u) == U32(u.hi \div 2, (u.lo \div 2) + (u.hi % 2) * 32768)

\* u >> 8
Shr8(u) == U32(u.hi \div 256, (u.lo \div 256) + (u.hi % 256) * 256)

-----------------------------------------------------------------------------
(* CRC-32/ISO-HDLC: reflected polynomial 0xEDB88320, init and xorout       *)
(* 0xFFFFFFFF, as crc::Crc::<u32>::new(&CRC_32_ISO_HDLC).checksum          *)

Poly == U32(60856, 33568)

AllOnes == U32(65535, 65535)

RECURSIVE CrcBitSteps(_, _)
CrcBitSteps(c, n) ==
    IF n = 0 THEN c
    ELSE IF c.lo % 2 = 1 THEN CrcBitSteps(XorU32(Shr1(c), Poly), n - 1)
    ELSE CrcBitSteps(Shr1(c), n - 1)

CrcTable == [n \in 0..255 |-> CrcBitSteps(U32(0, n), 8)]

CrcUpdate(c, byte) ==
    XorU32(CrcTable[XorBits(c.lo % 256, byte, 8)], Shr8(c))

RECURSIVE CrcFold(_, _, _)
CrcFold(c, bytes, i) ==
    IF i > Len(bytes) THEN c ELSE CrcFold(CrcUpdate(c, bytes[i]), bytes, i + 1)

checksum(bytes) == XorU32(CrcFold(AllOnes, bytes, 1), AllOnes)

-----------------------------------------------------------------------------
(* ChunkType (chunk_type.rs) *)

\* the test applied to each byte by both constructors
IsLetter(i) == (i >= 65 /\ i <= 90) \/ (i >= 97 /\ i <= 122)

\* u8::is_ascii_uppercase
is_ascii_uppercase(b) == b >= 65 /\ b <= 90

ChunkType(bytes) == [type_bytes |-> bytes]

\* ChunkType::bytes
bytes_of(t) == t.type_bytes

is_critical(t) == is_ascii_uppercase(t.type_bytes[1])

is_public(t) == is_ascii_uppercase(t.type_bytes[2])

is_reserved_bit_valid(t) == is_ascii_uppercase(t.type_bytes[3])

\* mutant: the negation is left out
is_safe_to_copy_NotNegated(t) == is_ascii_uppercase(t.type_bytes[4])

is_safe_to_copy(t) == ~is_ascii_uppercase(t.type_bytes[4])

is_valid(t) == is_reserved_bit_valid(t)

\* first index in i..Len(bytes) whose byte is not a letter, or 0
RECURSIVE FirstNonLetter(_, _)
FirstNonLetter(bytes, i) ==
    IF i > Len(bytes) THEN 0
    ELSE IF IsLetter(bytes[i]) THEN FirstNonLetter(bytes, i + 1)
    ELSE i

\* mutant: the upper end of A-Z is excluded (i < 90)
ChunkType_try_from_BelowZ(bytes) ==
    IF \E k \in 1..4 : ~((bytes[k] >= 65 /\ bytes[k] < 90)
                            \/ (bytes[k] >= 97 /\ bytes[k] <= 122))
    THEN [res |-> InvalidTypeCode, val |-> None]
    ELSE [res |-> Ok, val |-> ChunkType(bytes)]

\* impl TryFrom<[u8; 4]> for ChunkType
ChunkType_try_from(bytes) ==
    IF FirstNonLetter(bytes, 1) # 0
    THEN [res |-> InvalidTypeCode, val |-> None]
    ELSE [res |-> Ok, val |-> ChunkType(bytes)]

\* the UTF-8 encoding of one character (a code point below 65536)
Utf8(c) ==
    IF c < 128 THEN <<c>>
    ELSE IF c < 2048 THEN <<192 + (c \div 64), 128 + (c % 64)>>
    ELSE <<224 + (c \div 4096), 128 + ((c \div 64) % 64), 128 + (c % 64)>>

\* str::as_bytes: the UTF-8 bytes of the characters, in order
RECURSIVE str_as_bytes(_)
str_as_bytes(s) ==
    IF s = <<>> THEN <<>> ELSE Utf8(Head(s)) \o str_as_bytes(Tail(s))

\* mutant: only texts shorter than 4 bytes are refused for their length
ChunkType_from_str_ShortOnly(s) ==
    LET sb == str_as_bytes(s)
    IN  IF Len(sb) < 4 THEN [res |-> InvalidLength, val |-> None]
        ELSE IF FirstNonLetter(SubSeq(sb, 1, 4), 1) # 0
        THEN [res |-> InvalidTypeCode, val |-> None]
        ELSE [res |-> Ok, val |-> ChunkType([i \in 1..4 |-> sb[i]])]

\* impl FromStr for ChunkType; s is a sequence of characters
ChunkType_from_str(s) ==
    LET sb == str_as_bytes(s)
    IN  IF Len(sb) # 4 THEN [res |-> InvalidLength, val |-> None]
        ELSE IF FirstNonLetter(sb, 1) # 0
        THEN [res |-> InvalidTypeCode, val |-> None]
        ELSE [res |-> Ok, val |-> ChunkType([i \in 1..4 |-> sb[i]])]

-----------------------------------------------------------------------------
(* Chunk (chunk.rs) *)

\* mutant: the checksum leaves out the type bytes
Chunk_new_CrcOverDataOnly(chunktype_init, data_init) ==
    [len |-> AsU32(Len(data_init)),
     chunktype |-> chunktype_init,
     chunk_data |-> data_init,
     chunk_crc |-> checksum(data_init)]

\* Chunk::new
Chunk_new(chunktype_init, data_init) ==
    LET len_tmp == AsU32(Len(data_init))
        check_crc == bytes_of(chunktype_init) \o data_init
    IN  [len |-> len_tmp,
         chunktype |-> chunktype_init,
         chunk_data |-> data_init,
         chunk_crc |-> checksum(check_crc)]

\* mutant: the payload is written before the type bytes
as_bytes_DataBeforeType(c) ==
    to_be_bytes(c.len) \o c.chunk_data \o bytes_of(c.chunktype)
        \o to_be_bytes(c.chunk_crc)

\* mutant: the length is written in little-endian order
as_bytes_LittleEndian(c) ==
    <<c.len.lo % 256, c.len.lo \div 256, c.len.hi % 256, c.len.hi \div 256>>
        \o bytes_of(c.chunktype) \o c.chunk_data \o to_be_bytes(c.chunk_crc)

\* Chunk::as_bytes
as_bytes(c) ==
    to_be_bytes(c.len) \o bytes_of(c.chunktype) \o c.chunk_data
        \o to_be_bytes(c.chunk_crc)

\* the sum 12 + len_tmp of the size comparison: it panics on overflow in a
\* build with overflow checks and wraps in one without
SizeSum(len_tmp, checks) ==
    LET s == AddU32(AsU32(12), len_tmp)
    IN  [panic |-> s.overflow /\ checks, value |-> s.value]

\* whether bytes[i] (0-based) is inside the slice
InRange(bytes, i) == i >= 0 /\ i < Len(bytes)

\* mutant: the checksum found in the buffer is not compared
ChunkBody_NoCrcCheck(bytes, len_tmp, chunk_type_tmp) ==
    LET end == 8 + AsUsize(len_tmp)
    IN  [res |-> Ok,
         val |-> [len |-> len_tmp,
                  chunktype |-> chunk_type_tmp,
                  chunk_data |-> SubSeq(bytes, 9, end),
                  chunk_crc |-> from_be_bytes(SubSeq(bytes, end + 1, end + 4))]]

\* the part of try_from after the type code was accepted
ChunkBody(bytes, len_tmp, chunk_type_tmp) ==
    LET len_index == AsUsize(len_tmp)
        end == 8 + len_index
    IN  IF ~InRange(bytes, 11 + len_index) THEN [res |-> Panic, val |-> None]
        ELSE LET data_tmp == SubSeq(bytes, 9, end)
                 check_crc == SubSeq(bytes, 5, 8) \o data_tmp
                 chunk_crc_tmp == from_be_bytes(SubSeq(bytes, end + 1, end + 4))
             IN  IF checksum(check_crc) # chunk_crc_tmp
                 THEN [res |-> CrcMismatch, val |-> None]
                 ELSE [res |-> Ok,
                       val |-> [len |-> len_tmp,
                                chunktype |-> chunk_type_tmp,
                                chunk_data |-> data_tmp,
                                chunk_crc |-> chunk_crc_tmp]]

\* mutant: a buffer longer than 12 + length is accepted (< for !=)
Chunk_try_from_AcceptsTrailing(bytes, checks) ==
    IF Len(bytes) < 12 THEN [res |-> TooShort, val |-> None]
    ELSE LET len_tmp == from_be_bytes(SubSeq(bytes, 1, 4))
             sum == SizeSum(len_tmp, checks)
         IN  IF sum.panic THEN [res |-> Panic, val |-> None]
             ELSE IF len_tmp.hi # 0 \/ Len(bytes) < 12 + len_tmp.lo
             THEN [res |-> LengthMismatch, val |-> None]
             ELSE LET t == ChunkType_try_from(SubSeq(bytes, 5, 8))
                  IN  IF t.res # Ok THEN [res |-> t.res, val |-> None]
                      ELSE ChunkBody(bytes, len_tmp, t.val)

\* impl TryFrom<&[u8]> for Chunk
Chunk_try_from(bytes, checks) ==
    IF Len(bytes) < 12 THEN [res |-> TooShort, val |-> None]
    ELSE LET len_tmp == from_be_bytes(SubSeq(bytes, 1, 4))
             sum == SizeSum(len_tmp, checks)
         IN  IF sum.panic THEN [res |-> Panic, val |-> None]
             ELSE IF AsU32(Len(bytes)) # sum.value
             THEN [res |-> LengthMismatch, val |-> None]
             ELSE LET t == ChunkType_try_from(SubSeq(bytes, 5, 8))
                  IN  IF t.res # Ok THEN [res |-> t.res, val |-> None]
                      ELSE ChunkBody(bytes, len_tmp, t.val)

-----------------------------------------------------------------------------
(* The inputs a caller passes in *)

\* '1', 'A', 'z'
TypeAlphabet == {49, 65, 122}

\* the bytes on both sides of each end of A-Z and a-z, and the ends of u8
BoundaryBytes == {0, 64, 65, 90, 91, 96, 97, 122, 123, 255}

\* "RuSt"
BaseType == <<82, 117, 83, 116>>

TypeInputs ==
    [1..4 -> TypeAlphabet]
        \cup {[BaseType EXCEPT ![i] = v] : i \in 1..4, v \in BoundaryBytes}

\* '1', 'A', 'z', U+00E9 (2 bytes of UTF-8), U+20AC (3 bytes)
CharAlphabet == {49, 65, 122, 233, 8364}

SeqsUpTo(S, n) == UNION {[1..k -> S] : k \in 0..n}

StrInputs == SeqsUpTo(CharAlphabet, MaxStrLen)

\* 0x00, 'A', 0xFF
DataAlphabet == {0, 65, 255}

Payloads == SeqsUpTo(DataAlphabet, MaxData)

\* length fields: the small ones, and those around the overflow of 12 + length
LenFields ==
    {to_be_bytes(AsU32(k)) : k \in 0..(MaxData + 1)}
        \cup {<<255, 255, 255, 243>>, <<255, 255, 255, 244>>,
              <<255, 255, 255, 255>>, <<0, 1, 0, 0>>}

\* "RuSt", "ruST", "Ru1t", "1234"
TypeFields ==
    {BaseType, <<114, 117, 83, 84>>, <<82, 117, 49, 116>>, <<49, 50, 51, 52>>}

\* the right checksum field, the same with its last byte altered, and zeros
CrcFields(t, d) ==
    LET c == to_be_bytes(checksum(t \o d))
    IN  {c, [c EXCEPT ![4] = (c[4] + 1) % 256], <<0, 0, 0, 0>>}

Framed ==
    UNION {{l \o t \o d \o c : c \in CrcFields(t, d)} :
              l \in LenFields, t \in TypeFields, d \in Payloads}

\* what is left of a frame that was cut short, and a frame with a byte added
Cuts(f) ==
    {SubSeq(f, 1, k) : k \in {0, 8, 11, Len(f) - 1, Len(f)}} \cup {f \o <<0>>}

UntrustedBuffers == UNION {Cuts(f) : f \in Framed}

\* the bits flipped in a payload byte that is replaced: the lowest, the
\* highest, alternate bits, all bits
TamperMasks == {1, 128, 85, 255}

-----------------------------------------------------------------------------
(* The state machine: one caller, one call per step *)

Init ==
    /\ overflow_checks \in BOOLEAN
    /\ ctype = None
    /\ chunk = None
    /\ buf = <<>>
    /\ res = Ok
    /\ last = "start"
    /\ arg = None
    /\ origin = "none"
    /\ source_buf = <<>>
    /\ encoded = None
    /\ encoded_origin = "none"
    /\ tampered = FALSE
    /\ flags = None

\* ChunkType::try_from(bytes)
TypeTryFrom ==
    /\ last = "start"
    /\ \E bytes \in TypeInputs :
          LET r == ChunkType_try_from(bytes)
          IN  /\ ctype' = r.val
              /\ res' = r.res
              /\ arg' = bytes
    /\ last' = "ChunkType::try_from"
    /\ UNCHANGED <<overflow_checks, chunk, buf, origin, source_buf, encoded,
                   encoded_origin, tampered, flags>>

\* ChunkType::from_str(s)
TypeFromStr ==
    /\ last = "start"
    /\ \E s \in StrInputs :
          LET r == ChunkType_from_str(s)
          IN  /\ ctype' = r.val
              /\ res' = r.res
              /\ arg' = s
    /\ last' = "ChunkType::from_str"
    /\ UNCHANGED <<overflow_checks, chunk, buf, origin, source_buf, encoded,
                   encoded_origin, tampered, flags>>

\* the accessors of the ChunkType held
Accessors ==
    /\ ctype # None
    /\ last \in {"ChunkType::try_from", "ChunkType::from_str"}
    /\ flags' = [bytes |-> bytes_of(ctype),
                 is_critical |-> is_critical(ctype),
                 is_public |-> is_public(ctype),
                 is_reserved_bit_valid |-> is_reserved_bit_valid(ctype),
                 is_safe_to_copy |-> is_safe_to_copy(ctype),
                 is_valid |-> is_valid(ctype)]
    /\ last' = "accessors"
    /\ res' = Ok
    /\ UNCHANGED <<overflow_checks, ctype, chunk, buf, arg, origin, source_buf,
                   encoded, encoded_origin, tampered>>

\* Chunk::new(ctype, data)
ChunkNew ==
    /\ ctype # None
    /\ last \in {"ChunkType::try_from", "ChunkType::from_str", "accessors"}
    /\ \E data \in Payloads : chunk' = Chunk_new(ctype, data)
    /\ origin' = "new"
    /\ res' = Ok
    /\ last' = "Chunk::new"
    /\ arg' = None
    /\ flags' = None
    /\ UNCHANGED <<overflow_checks, ctype, buf, source_buf, encoded,
                   encoded_origin, tampered>>

\* chunk.as_bytes()
AsBytes ==
    /\ chunk # None
    /\ last \in {"Chunk::new", "Chunk::try_from"}
    /\ buf' = as_bytes(chunk)
    /\ encoded' = chunk
    /\ encoded_origin' = origin
    /\ tampered' = FALSE
    /\ res' = Ok
    /\ last' = "as_bytes"
    /\ UNCHANGED <<overflow_checks, ctype, chunk, arg, origin, source_buf, flags>>

\* the caller receives bytes from outside
Receive ==
    /\ last = "start"
    /\ buf' \in UntrustedBuffers
    /\ last' = "receive"
    /\ UNCHANGED <<overflow_checks, ctype, chunk, res, arg, origin, source_buf,
                   encoded, encoded_origin, tampered, flags>>

\* one payload byte of the encoding of a record made by Chunk::new is
\* replaced by another value
Tamper ==
    /\ last = "as_bytes"
    /\ encoded_origin = "new"
    /\ \E i \in 9..(Len(buf) - 4), m \in TamperMasks :
          buf' = [buf EXCEPT ![i] = XorBits(buf[i], m, 8)]
    /\ tampered' = TRUE
    /\ last' = "tamper"
    /\ UNCHANGED <<overflow_checks, ctype, chunk, res, arg, origin, source_buf,
                   encoded, encoded_origin, flags>>

\* Chunk::try_from(buf)
ChunkTryFrom ==
    /\ last \in {"receive", "as_bytes", "tamper"}
    /\ LET r == Chunk_try_from(buf, overflow_checks)
       IN  /\ chunk' = r.val
           /\ res' = r.res
    /\ origin' = "decoded"
    /\ source_buf' = buf
    /\ ctype' = IF chunk' = None THEN None ELSE chunk'.chunktype
    /\ last' = "Chunk::try_from"
    /\ UNCHANGED <<overflow_checks, buf, arg, encoded, encoded_origin,
                   tampered, flags>>

Next ==
    \/ TypeTryFrom
    \/ TypeFromStr
    \/ Accessors
    \/ ChunkNew
    \/ AsBytes
    \/ Receive
    \/ Tamper
    \/ ChunkTryFrom

Spec == Init /\ [][Next]_vars

-----------------------------------------------------------------------------
(* Vocabulary of the properties, stated without the operators above *)

Letters == (65..90) \cup (97..122)

Uppercase == 65..90

\* the k-th (1..4) big-endian byte of a number below 2^31
BeByte(n, k) ==
    CASE k = 1 -> (n \div 16777216) % 256
      [] k = 2 -> (n \div 65536) % 256
      [] k = 3 -> (n \div 256) % 256
      [] k = 4 -> n % 256

\* the buffer is 12 + N bytes long, N being its big-endian length field
SizeMatches(b) == \A k \in 1..4 : b[k] = BeByte(Len(b) - 12, k)

\* CRC-32/ISO-HDLC bit by bit: each byte is xored into the low byte of the
\* register, which is then shifted out through the reflected polynomial
RECURSIVE Crc32Bitwise(_, _)
Crc32Bitwise(c, bytes) ==
    IF bytes = <<>> THEN c
    ELSE Crc32Bitwise(CrcBitSteps(XorU32(c, U32(0, Head(bytes))), 8), Tail(bytes))

Crc32IsoHdlc(bytes) == XorU32(Crc32Bitwise(AllOnes, bytes), AllOnes)

\* the four bytes hold the u32 in big-endian order
HoldsBe(b4, u) == b4[1] * 256 + b4[2] = u.hi /\ b4[3] * 256 + b4[4] = u.lo

\* the number of bytes of the UTF-8 form of a text
RECURSIVE Utf8Len(_)
Utf8Len(s) ==
    IF s = <<>> THEN 0
    ELSE (IF Head(s) < 128 THEN 1 ELSE IF Head(s) < 2048 THEN 2 ELSE 3)
             + Utf8Len(Tail(s))

TypedErrors == {InvalidTypeCode, TooShort, LengthMismatch, CrcMismatch}

-----------------------------------------------------------------------------
(* C1: whenever a buffer decoded successfully and the decoded record is    *)
(* encoded again, the bytes produced equal the buffer that was decoded.    *)
RoundTripFromBytes ==
    (last = "as_bytes" /\ origin = "decoded") => buf = source_buf

\* a received buffer of type "ruST" with a payload was decoded and re-encoded
RoundTripFromBytesWitness ==
    /\ last = "as_bytes"
    /\ origin = "decoded"
    /\ Len(source_buf) > 12
    /\ SubSeq(source_buf, 5, 8) = <<114, 117, 83, 84>>

(* C2: decoding the encoding of a record made by Chunk::new succeeds and   *)
(* gives a record with the same type code, payload, length and checksum.   *)
ConstructionRoundTrip ==
    (last = "Chunk::try_from" /\ encoded_origin = "new" /\ ~tampered) =>
        /\ res = Ok
        /\ chunk # None
        /\ chunk.chunktype = encoded.chunktype
        /\ chunk.chunk_data = encoded.chunk_data
        /\ chunk.len = encoded.len
        /\ chunk.chunk_crc = encoded.chunk_crc

\* a record with two payload bytes was made, encoded and decoded
ConstructionRoundTripWitness ==
    /\ last = "Chunk::try_from"
    /\ encoded_origin = "new"
    /\ ~tampered
    /\ Len(encoded.chunk_data) >= 2
    /\ res = Ok

\* what C3 says Chunk::try_from answers for a buffer
OrderedOutcome(b) ==
    IF Len(b) < 12 THEN TooShort
    ELSE IF ~SizeMatches(b) THEN LengthMismatch
    ELSE IF \E i \in 5..8 : b[i] \notin Letters THEN InvalidTypeCode
    ELSE IF ~HoldsBe(SubSeq(b, Len(b) - 3, Len(b)),
                     Crc32IsoHdlc(SubSeq(b, 5, Len(b) - 4))) THEN CrcMismatch
    ELSE Ok

(* C3: Chunk::try_from answers with the first failing check of: too short, *)
(* length mismatch, invalid type code, CRC mismatch; and with a record     *)
(* only when all four pass.                                                *)
ChecksInOrder ==
    last = "Chunk::try_from" =>
        /\ res = OrderedOutcome(source_buf)
        /\ (chunk # None) = (res = Ok)

(* C4: every Chunk that exists has the CRC-32/ISO-HDLC of its type bytes   *)
(* followed by its payload as checksum, and its payload's size as length.  *)
RecordInvariant ==
    chunk # None =>
        /\ chunk.chunk_crc
               = Crc32IsoHdlc(chunk.chunktype.type_bytes \o chunk.chunk_data)
        /\ chunk.len.hi = 0
        /\ chunk.len.lo = Len(chunk.chunk_data)

\* a record with a payload was decoded from a received buffer of type "ruST"
RecordInvariantWitness ==
    /\ chunk # None
    /\ origin = "decoded"
    /\ last = "Chunk::try_from"
    /\ chunk.chunktype.type_bytes = <<114, 117, 83, 84>>
    /\ Len(chunk.chunk_data) > 0

(* C5: ChunkType::try_from succeeds exactly when the 4 bytes are all in    *)
(* A-Z or a-z, then stores the bytes given, and no ChunkType ever holds a  *)
(* byte that is not a letter.                                              *)
TypeFromBytes ==
    /\ last = "ChunkType::try_from" =>
          /\ (res = Ok) = (\A i \in 1..4 : arg[i] \in Letters)
          /\ res = Ok => (ctype # None /\ ctype.type_bytes = arg)
          /\ res # Ok => (ctype = None /\ res = InvalidTypeCode)
    /\ ctype # None => \A i \in 1..4 : ctype.type_bytes[i] \in Letters

\* "ZuSt" was accepted: a byte at the upper end of A-Z
TypeFromBytesWitness ==
    /\ last = "ChunkType::try_from"
    /\ res = Ok
    /\ arg = <<90, 117, 83, 116>>

\* the answer C6 describes, the size of the text counted in `size`
FromStrOutcome(s, size) ==
    IF size # 4 THEN [res |-> InvalidLength, val |-> None]
    ELSE IF \E i \in 1..Len(s) : s[i] \notin Letters
    THEN [res |-> InvalidTypeCode, val |-> None]
    ELSE [res |-> Ok, val |-> [type_bytes |-> s]]

(* C6 as stated: ChunkType::from_str fails with InvalidLength when the     *)
(* text is not exactly 4 characters, with InvalidTypeCode when it has 4    *)
(* characters and one is not an ASCII letter, and otherwise gives the      *)
(* ChunkType of the text's 4 bytes.                                        *)
FromStrByCharacters ==
    last = "ChunkType::from_str" =>
        /\ res = FromStrOutcome(arg, Len(arg)).res
        /\ ctype = FromStrOutcome(arg, Len(arg)).val

(* C6 amended: ChunkType::from_str fails with InvalidLength when the UTF-8 *)
(* form of the text is not exactly 4 bytes, with InvalidTypeCode when it   *)
(* is 4 bytes and one is not an ASCII letter, and otherwise gives the      *)
(* ChunkType of those 4 bytes.                                             *)
FromStrByBytes ==
    last = "ChunkType::from_str" =>
        /\ res = FromStrOutcome(arg, Utf8Len(arg)).res
        /\ ctype = FromStrOutcome(arg, Utf8Len(arg)).val

\* a text of 4 characters, 5 bytes long, was refused for its length
FromStrByBytesWitness ==
    /\ last = "ChunkType::from_str"
    /\ Len(arg) = 4
    /\ Utf8Len(arg) = 5
    /\ res = InvalidLength

(* C7: as_bytes never fails and returns 12 + length bytes: the length in   *)
(* big-endian, the 4 type bytes, the payload, the checksum in big-endian.  *)
EncodeLayout ==
    last = "as_bytes" =>
        LET N == chunk.len.hi * Half + chunk.len.lo
        IN  /\ res = Ok
            /\ Len(buf) = 12 + N
            /\ HoldsBe(SubSeq(buf, 1, 4), chunk.len)
            /\ SubSeq(buf, 5, 8) = chunk.chunktype.type_bytes
            /\ SubSeq(buf, 9, 8 + N) = chunk.chunk_data
            /\ HoldsBe(SubSeq(buf, 9 + N, 12 + N), chunk.chunk_crc)

\* a record with two payload bytes was encoded
EncodeLayoutWitness ==
    /\ last = "as_bytes"
    /\ Len(chunk.chunk_data) = 2
    /\ Len(buf) = 14

(* C8: is_critical, is_public and is_reserved_bit_valid tell whether byte  *)
(* 0, 1, 2 is uppercase, is_safe_to_copy whether byte 3 is not, and        *)
(* is_valid is is_reserved_bit_valid.                                      *)
PropertyBits ==
    last = "accessors" =>
        /\ flags.is_critical = (ctype.type_bytes[1] \in Uppercase)
        /\ flags.is_public = (ctype.type_bytes[2] \in Uppercase)
        /\ flags.is_reserved_bit_valid = (ctype.type_bytes[3] \in Uppercase)
        /\ flags.is_safe_to_copy = (ctype.type_bytes[4] \notin Uppercase)
        /\ flags.is_valid = flags.is_reserved_bit_valid

\* the accessors were read on "AzAz": critical, not public, valid, safe to copy
PropertyBitsWitness ==
    /\ last = "accessors"
    /\ ctype.type_bytes = <<65, 122, 65, 122>>
    /\ flags.is_critical
    /\ ~flags.is_public
    /\ flags.is_valid
    /\ flags.is_safe_to_copy

(* C9: when one payload byte of the encoding of a record made by           *)
(* Chunk::new is replaced by another value, Chunk::try_from fails with     *)
(* the CRC mismatch error and returns no record.                           *)
CorruptionDetected ==
    (last = "Chunk::try_from" /\ encoded_origin = "new" /\ tampered) =>
        (res = CrcMismatch /\ chunk = None)

\* the second payload byte was replaced and the buffer decoded
CorruptionDetectedWitness ==
    /\ last = "Chunk::try_from"
    /\ encoded_origin = "new"
    /\ tampered
    /\ source_buf[10] # as_bytes(encoded)[10]
    /\ res = CrcMismatch

(* C10: Chunk::try_from always ends with a record or a typed error, never  *)
(* with a panic, and with the length mismatch error whenever a buffer of   *)
(* 12 bytes or more is not 12 + its length field long.                     *)
DecodeTotal ==
    last = "Chunk::try_from" =>
        /\ res \in TypedErrors \cup {Ok}
        /\ (Len(source_buf) >= 12 /\ ~SizeMatches(source_buf))
              => res = LengthMismatch

=============================================================================
